---------------------------- MODULE Spec2Model ----------------------------
(***************************************************************************)
(* Model of MeasureElement                                                 *)
(* (src/components/devsupport/components/measure/measure.component.tsx).   *)
(*                                                                         *)
(* Two specifications share the module:                                    *)
(*   Spec      the component: render passes, commits, the forced and the   *)
(*             post-layout runs of measureSelf, the onMeasure callback;    *)
(*   SpecBind  the recursion of bindToWindow, one call frame per step, on  *)
(*             inputs drawn from bounded sets.                             *)
(***************************************************************************)
EXTENDS Integers, Sequences, FiniteSets

VARIABLES
    phase,          \* "idle" | "rendered" | "crashed": position in the render/commit cycle
    renders,        \* number of committed renders of the component
    passed,         \* the props as the caller passed them (shouldUseTopInsets may be "unset")
    props,          \* the props the component function sees (defaultProps applied)
    refCurrent,     \* ref.current
    deps,           \* dependency list the layout effect kept from the previous render
    pendingDeps,    \* dependency list read during the render pass that awaits commit
    host,           \* the platform: the child's rectangle, StatusBar.currentHeight, the window
    lastRun,        \* the run of measureSelf made by the latest step (NoRun if it made none)
    calls,          \* triggers of the onMeasure invocations of the current render cycle
    effectRuns,     \* how many times the layout effect has run
    commitInfo,     \* what the latest commit changed, and whether the effect ran
    history,        \* whether force / the child stayed the same over all renders so far
    bpc,            \* bindToWindow recursion: "off" | "running" | "returned" | "RangeError"
    binput,         \* the frame bindToWindow was first called with
    bwindow,        \* the window bindToWindow was called with
    bframe,         \* the frame of the current recursive call (the result once returned)
    bsteps          \* number of subtraction steps (recursive calls) made so far

compVars == <<phase, renders, passed, props, refCurrent, deps, pendingDeps, host,
              lastRun, calls, effectRuns, commitInfo, history>>
bindVars == <<bpc, binput, bwindow, bframe, bsteps>>
vars == <<phase, renders, passed, props, refCurrent, deps, pendingDeps, host,
          lastRun, calls, effectRuns, commitInfo, history,
          bpc, binput, bwindow, bframe, bsteps>>

---------------------------------------------------------------------------
(* Bounds of the model. *)

\* frames of SpecBind have origin.x in -MaxX..MaxX
MaxX == 6
\* windows of SpecBind have size.width in 0..MaxW
MaxW == 3
\* the component is rendered (and committed) at most MaxRenders times
MaxRenders == 3
\* at most MaxInst distinct child instances are mounted over a run
MaxInst == 2

---------------------------------------------------------------------------
(* JavaScript values that are not always numbers. *)

Num(n) == [t |-> "number", v |-> n]
Undef == [t |-> "undefined", v |-> 0]
Null == [t |-> "null", v |-> 0]
NaN == [t |-> "NaN", v |-> 0]

\* ToNumber: undefined -> NaN, null -> +0
ToNumber(a) == IF a.t = "undefined" THEN NaN ELSE IF a.t = "null" THEN Num(0) ELSE a

\* a + b on numeric operands
JsAdd(a, b) ==
    LET na == ToNumber(a)
        nb == ToNumber(b)
    IN  IF na.t = "NaN" \/ nb.t = "NaN" THEN NaN ELSE Num(na.v + nb.v)

\* ToBoolean
Truthy(a) == a.t = "number" /\ a.v # 0

\* a || b
JsOr(a, b) == IF Truthy(a) THEN a ELSE b

---------------------------------------------------------------------------
(* Frame and the window-wrap correction. *)

Frame(x, y, width, height) ==
    [origin |-> [x |-> x, y |-> y], size |-> [width |-> width, height |-> height]]

\* Frame.window(): the viewport, origin 0,0
WindowFrame(width, height) == Frame(0, 0, width, height)

\* line 52 with <= for <
InWindowLe(frame, window) == frame.origin.x <= window.size.width

\* line 52 with the bound one too low
InWindowOffByOne(frame, window) == frame.origin.x < window.size.width - 1

\* line 52: frame.origin.x < window.size.width
InWindow(frame, window) == frame.origin.x < window.size.width

\* lines 56-61 with frame.size.height lost
boundFrameSquare(frame, window) ==
    Frame(frame.origin.x - window.size.width, frame.origin.y,
          frame.size.width, frame.size.width)

\* lines 56-61 with the window's height subtracted
boundFrameByHeight(frame, window) ==
    Frame(frame.origin.x - window.size.height, frame.origin.y,
          frame.size.width, frame.size.height)

\* lines 56-61: the frame one window width to the left
boundFrame(frame, window) ==
    Frame(frame.origin.x - window.size.width, frame.origin.y,
          frame.size.width, frame.size.height)

\* The recursion never reaches its base case: each call subtracts a width
\* that is not positive from an origin.x that is not below it.
Overflows(frame, window) == ~InWindow(frame, window) /\ window.size.width <= 0

RECURSIVE bindToWindow(_, _)
bindToWindow(frame, window) ==
    IF InWindow(frame, window)
    THEN frame
    ELSE bindToWindow(boundFrame(frame, window), window)


---------------------------------------------------------------------------
(* The component's variables before the first render. *)

RefUndef == [t |-> "undefined", id |-> 0, kind |-> "none"]
RefNull == [t |-> "null", id |-> 0, kind |-> "none"]

NoRun == [trigger |-> "none", ref |-> RefUndef, rect |-> <<>>,
          useInsets |-> FALSE, out |-> <<>>, error |-> FALSE]

NoCommit == [geometryChanged |-> FALSE, forceChanged |-> FALSE,
             handleChanged |-> FALSE, effectRan |-> FALSE]

---------------------------------------------------------------------------
(* SpecBind: bindToWindow, one recursive call per step. *)

BindYs == {-1, 0, 20}
BindSizes == {<<0, 0>>, <<100, 50>>}

\* the inputs: every small frame against every small window, and the
\* documented example (x = 850 in a window 400 wide)
BindInputs ==
    {<<Frame(x, y, s[1], s[2]), WindowFrame(w, 800)>> :
        x \in -MaxX..MaxX, y \in BindYs, s \in BindSizes, w \in 0..MaxW}
    \cup {<<Frame(850, 20, 100, 50), WindowFrame(400, 800)>>}

\* Call frames the engine's stack holds: more than any terminating recursion
\* on the inputs above needs.
StackLimit == MaxX + 2

\* line 63: the recursive call, on the frame of lines 56-61
BindStep ==
    /\ bpc = "running"
    /\ ~InWindow(bframe, bwindow)
    /\ bsteps < StackLimit
    /\ bframe' = boundFrame(bframe, bwindow)
    /\ bsteps' = bsteps + 1
    /\ UNCHANGED <<bpc, binput, bwindow>>
    /\ UNCHANGED compVars

\* lines 52-54: the base case
BindReturn ==
    /\ bpc = "running"
    /\ InWindow(bframe, bwindow)
    /\ bpc' = "returned"
    /\ UNCHANGED <<binput, bwindow, bframe, bsteps>>
    /\ UNCHANGED compVars

\* line 63 with the call stack exhausted
BindOverflow ==
    /\ bpc = "running"
    /\ ~InWindow(bframe, bwindow)
    /\ bsteps >= StackLimit
    /\ bpc' = "RangeError"
    /\ UNCHANGED <<binput, bwindow, bframe, bsteps>>
    /\ UNCHANGED compVars

CompIdle ==
    /\ phase = "idle"
    /\ renders = 0
    /\ passed = [force |-> FALSE, shouldUseTopInsets |-> "unset"]
    /\ props = [force |-> FALSE, shouldUseTopInsets |-> FALSE,
                child |-> [id |-> 0, kind |-> "none"]]
    /\ refCurrent = RefUndef
    /\ deps = <<>>
    /\ pendingDeps = <<>>
    /\ host = [rect |-> <<>>, inset |-> Undef, window |-> WindowFrame(400, 800)]
    /\ lastRun = NoRun
    /\ calls = <<>>
    /\ effectRuns = 0
    /\ commitInfo = NoCommit
    /\ history = [forceStable |-> TRUE, childStable |-> TRUE]

InitBind ==
    /\ CompIdle
    /\ bpc = "running"
    /\ \E i \in BindInputs :
        /\ binput = i[1]
        /\ bframe = i[1]
        /\ bwindow = i[2]
    /\ bsteps = 0

NextBind == BindStep \/ BindReturn \/ BindOverflow

SpecBind == InitBind /\ [][NextBind]_vars /\ WF_vars(NextBind)

\* The step-by-step recursion and the operators agree.
BindAgrees ==
    /\ bpc = "returned" => ~Overflows(binput, bwindow) /\ bframe = bindToWindow(binput, bwindow)
    /\ bpc = "RangeError" => Overflows(binput, bwindow)


---------------------------------------------------------------------------
(* The component. *)

\* line 49: useRef(this). `this` of a module-level arrow function is undefined
\* in an ES module and the module's exports object in a CommonJS build.
ModuleThis == [t |-> "object", id |-> 0, kind |-> "module"]
InitialRefs == {RefUndef, ModuleThis}

\* lines 91-93
defaultProps == [shouldUseTopInsets |-> FALSE]

\* the props the function receives: what was passed, over defaultProps
WithDefaults(p, child) ==
    [force |-> p.force,
     shouldUseTopInsets |->
        IF p.shouldUseTopInsets = "unset"
        THEN defaultProps.shouldUseTopInsets
        ELSE p.shouldUseTopInsets = "true",
     child |-> child]

\* line 67 without the typeof test
MeasurableAny(ref) == ref.t = "object"

\* line 67: ref.current is set and has a getBoundingClientRect function
Measurable(ref) == ref.t = "object" /\ ref.kind = "host"

\* line 75 with the inset added whatever shouldUseTopInsets says
originYAlways(useInsets, rect, inset) == JsOr(JsAdd(Num(rect.y), inset), Num(0)).v

\* line 75: props.shouldUseTopInsets ? rect.y + StatusBar.currentHeight || 0 : rect.y
\* (+ binds tighter than ||, and both tighter than ?:)
originY(useInsets, rect, inset) ==
    IF useInsets
    THEN JsOr(JsAdd(Num(rect.y), inset), Num(0)).v
    ELSE rect.y

\* lines 66-78. The run is recorded with the handle it found, the rectangle the
\* geometry query gave (none if it gave none or was not made), what it handed
\* to onMeasure (out: no frame or one) and whether it threw.
measureSelf(trigger, ref, p, h) ==
    LET base == [trigger |-> trigger, ref |-> ref, rect |-> <<>>,
                 useInsets |-> p.shouldUseTopInsets, out |-> <<>>, error |-> FALSE]
    IN  IF ~Measurable(ref)
        THEN base
        ELSE IF h.rect = <<>>
        THEN base
        ELSE LET rect == h.rect[1]
                 frame == Frame(rect.x, originY(p.shouldUseTopInsets, rect, h.inset),
                                rect.width, rect.height)
             IN  IF Overflows(frame, h.window)
                 THEN [base EXCEPT !.rect = h.rect, !.error = TRUE]
                 ELSE [base EXCEPT !.rect = h.rect,
                                   !.out = <<bindToWindow(frame, h.window)>>]

\* line 80 negated
ForceTriggerNot(p) == ~p.force

\* line 80: if (props.force)
ForceTrigger(p) == p.force

\* line 86 with the handle left out of the dependency list
EffectDepsForceOnly(p, ref) == <<p.force, RefUndef>>

\* line 86: [props.force, ref.current], read during the render pass
EffectDeps(p, ref) == <<p.force, ref>>

\* lines 84-86: the effect runs on mount and when a dependency changed
EffectDue(prev, next) == prev = <<>> \/ prev # next

\* line 88: the ref given to the clone is bound at commit. A host element or a
\* class component binds its instance; a function component binds nothing, and
\* the instance that was bound before it is released (null).
AttachRef(ref, child) ==
    IF child.kind \in {"host", "component"}
    THEN [t |-> "object", id |-> child.id, kind |-> child.kind]
    ELSE IF ref.t = "object" /\ ref.kind \in {"host", "component"}
    THEN RefNull
    ELSE ref

Rect(x, y, width, height) == [x |-> x, y |-> y, width |-> width, height |-> height]

\* what getBoundingClientRect may return: nothing, or a rectangle
HostRects ==
    {<<>>, <<Rect(850, 20, 100, 50)>>, <<Rect(10, 5, 50, 50)>>,
     <<Rect(-1, 0, 0, 0)>>, <<Rect(10, -24, 50, 50)>>}
\* StatusBar.currentHeight: absent, null, or a height
Insets == {Undef, Null, Num(24)}
Windows == {WindowFrame(0, 0), WindowFrame(400, 800)}
Kinds == {"host", "component", "function"}
Flags == {"unset", "false", "true"}

\* the children a render pass may be given: the first child, the same child
\* again, or another one (which React mounts in place of the old)
Children ==
    IF renders = 0
    THEN {[id |-> 1, kind |-> k] : k \in Kinds}
    ELSE {props.child} \cup
         (IF props.child.id < MaxInst
          THEN {[id |-> props.child.id + 1, kind |-> k] : k \in Kinds}
          ELSE {})

Init ==
    /\ phase = "idle"
    /\ renders = 0
    /\ passed = [force |-> FALSE, shouldUseTopInsets |-> "unset"]
    /\ props = [force |-> FALSE, shouldUseTopInsets |-> FALSE,
                child |-> [id |-> 0, kind |-> "none"]]
    /\ refCurrent \in InitialRefs
    /\ deps = <<>>
    /\ pendingDeps = <<>>
    /\ host \in [rect : {<<>>}, inset : Insets, window : Windows]
    /\ lastRun = NoRun
    /\ calls = <<>>
    /\ effectRuns = 0
    /\ commitInfo = NoCommit
    /\ history = [forceStable |-> TRUE, childStable |-> TRUE]
    /\ bpc = "off"
    /\ binput = Frame(0, 0, 0, 0)
    /\ bwindow = WindowFrame(0, 0)
    /\ bframe = Frame(0, 0, 0, 0)
    /\ bsteps = 0

\* lines 47-89: one render pass of MeasureElement
Render(force, useInsets, child) ==
    /\ phase = "idle"
    /\ renders < MaxRenders
    /\ LET p == WithDefaults([force |-> force, shouldUseTopInsets |-> useInsets], child)
           run == IF ForceTrigger(p)
                  THEN measureSelf("render", refCurrent, p, host)
                  ELSE NoRun
       IN  /\ passed' = [force |-> force, shouldUseTopInsets |-> useInsets]
           /\ props' = p
           /\ lastRun' = run
           /\ calls' = IF run.out # <<>> THEN <<"render">> ELSE <<>>
           /\ pendingDeps' = EffectDeps(p, refCurrent)
           /\ phase' = IF run.error THEN "crashed" ELSE "rendered"
           /\ history' =
                [forceStable |-> history.forceStable /\ (renders = 0 \/ force = props.force),
                 childStable |-> /\ history.childStable
                                 /\ child.kind = "host"
                                 /\ (renders = 0 \/ child = props.child)]
    /\ UNCHANGED <<renders, refCurrent, deps, host, effectRuns, commitInfo>>
    /\ UNCHANGED bindVars

\* the commit of the render pass: the host applies the layout (the child's
\* rectangle becomes newRect), binds the ref, then runs the layout effect of
\* lines 84-86 if it is due
Commit(newRect) ==
    /\ phase = "rendered"
    /\ LET h == [host EXCEPT !.rect = newRect]
           ref == AttachRef(refCurrent, props.child)
           due == EffectDue(deps, pendingDeps)
           run == IF due THEN measureSelf("effect", ref, props, h) ELSE NoRun
       IN  /\ host' = h
           /\ refCurrent' = ref
           /\ deps' = pendingDeps
           /\ lastRun' = run
           /\ calls' = IF run.out # <<>> THEN Append(calls, "effect") ELSE calls
           /\ effectRuns' = IF due THEN effectRuns + 1 ELSE effectRuns
           /\ commitInfo' =
                [geometryChanged |-> Measurable(ref) /\ newRect # host.rect,
                 forceChanged |-> deps # <<>> /\ deps[1] # props.force,
                 handleChanged |-> ref # refCurrent,
                 effectRan |-> due]
           /\ phase' = IF run.error THEN "crashed" ELSE "idle"
    /\ renders' = renders + 1
    /\ UNCHANGED <<passed, props, pendingDeps, history>>
    /\ UNCHANGED bindVars

\* the viewport changes size between two render cycles (a render pass and its
\* commit are one synchronous task): Frame.window() (line 76) reads it at each run
Resize(window) ==
    /\ phase = "idle"
    /\ window # host.window
    /\ host' = [host EXCEPT !.window = window]
    /\ UNCHANGED <<phase, renders, passed, props, refCurrent, deps, pendingDeps,
                   lastRun, calls, effectRuns, commitInfo, history>>
    /\ UNCHANGED bindVars

Next ==
    \/ \E force \in BOOLEAN, useInsets \in Flags, child \in Children :
          Render(force, useInsets, child)
    \/ \E newRect \in HostRects : Commit(newRect)
    \/ \E window \in Windows : Resize(window)

Spec == Init /\ [][Next]_vars

---------------------------------------------------------------------------
(* Properties of bindToWindow, checked under SpecBind. *)

Max(a, b) == IF a >= b THEN a ELSE b
Min(a, b) == IF a <= b THEN a ELSE b

\* ceil(a / b) for b > 0
CeilDiv(a, b) == -((-a) \div b)

\* C1: for a window of positive width and a frame with origin.x >= the width,
\* the corrected frame has 0 <= origin.x < width and an origin.x congruent to
\* the input's modulo the width; x = 850 in a window 400 wide gives x = 50.
C1_WrapsIntoWindow ==
    LET w == bwindow.size.width
    IN  (w > 0 /\ binput.origin.x >= w) =>
            LET r == bindToWindow(binput, bwindow)
            IN  /\ 0 <= r.origin.x
                /\ r.origin.x < w
                /\ r.origin.x % w = binput.origin.x % w
                /\ (binput.origin.x = 850 /\ w = 400) => r.origin.x = 50
                /\ bpc # "RangeError"
                /\ bpc = "returned" => bframe = r

C1_Witness ==
    /\ bpc = "returned"
    /\ binput = Frame(850, 20, 100, 50)
    /\ bwindow.size.width = 400
    /\ bframe = Frame(50, 20, 100, 50)

\* C7: a frame with origin.x < the window's width (negative origin.x
\* included) is returned as it is, without a subtraction step.
C7_NoOpInsideWindow ==
    binput.origin.x < bwindow.size.width =>
        /\ bsteps = 0
        /\ bframe = binput
        /\ bpc # "RangeError"

C7_Witness ==
    /\ bpc = "returned"
    /\ binput.origin.x < 0
    /\ bframe = binput
    /\ bsteps = 0

\* C8: origin.y, size.width and size.height of the frame are those of the
\* input after any number of recursive steps; only origin.x may differ.
C8_PreservesYAndSize ==
    /\ bframe.origin.y = binput.origin.y
    /\ bframe.size.width = binput.size.width
    /\ bframe.size.height = binput.size.height

C8_Witness ==
    /\ bpc = "returned"
    /\ bsteps >= 2
    /\ bframe.origin.x # binput.origin.x
    /\ binput.size.width # binput.size.height
    /\ binput.origin.y # 0

\* each recursive call is made on a frame exactly one window width to the left
StepSubtractsWidth ==
    (bwindow.size.width > 0 /\ bsteps' # bsteps) =>
        /\ bsteps' = bsteps + 1
        /\ bframe'.origin.x = bframe.origin.x - bwindow.size.width
        /\ bframe'.origin.x < bframe.origin.x

BindTerminates == (bwindow.size.width > 0) ~> (bpc = "returned")

\* C9 as stated: with a window of positive width the recursion terminates,
\* each step lowers origin.x by exactly the width, and the number of steps is
\* at most ceil(origin.x / width).
C9_Original ==
    /\ [](bwindow.size.width > 0 =>
            bsteps <= CeilDiv(binput.origin.x, bwindow.size.width))
    /\ [][StepSubtractsWidth]_vars
    /\ BindTerminates

\* C9 (amended): with a window of positive width the recursion terminates,
\* each step lowers origin.x by exactly the width, and the number of steps is
\* at most max(0, ceil(origin.x / width)): none for an origin.x below 0.
C9_Amended ==
    /\ [](bwindow.size.width > 0 =>
            bsteps <= Max(0, CeilDiv(binput.origin.x, bwindow.size.width)))
    /\ [][StepSubtractsWidth]_vars
    /\ BindTerminates

C9_Witness ==
    /\ bpc = "returned"
    /\ bwindow.size.width > 1
    /\ bsteps >= 2
    /\ bsteps = CeilDiv(binput.origin.x, bwindow.size.width)

---------------------------------------------------------------------------
(* Properties of the component, checked under Spec. *)

\* the latest run of measureSelf handed a frame to onMeasure
Delivered == lastRun.out # <<>>

\* the top-inset value, 0 when the platform has none
InsetOrZero(inset) == IF inset.t = "number" THEN inset.v ELSE 0

\* C2: with shouldUseTopInsets the delivered origin.y is the raw y plus the
\* top inset, and the raw y itself when the platform has no inset value.
C2_AddsTopInset ==
    (Delivered /\ passed.shouldUseTopInsets = "true") =>
        lastRun.out[1].origin.y = lastRun.rect[1].y + InsetOrZero(host.inset)

\* C3: a run of measureSelf (forced at render or from the layout effect) that
\* finds the handle unbound or without a geometry query, or gets no rectangle,
\* invokes nothing and raises nothing; onMeasure only ever gets a whole Frame.
C3_SilentSkip ==
    /\ (/\ lastRun.trigger # "none"
        /\ \/ lastRun.ref.t # "object"
           \/ lastRun.ref.kind # "host"
           \/ lastRun.rect = <<>>)
       => /\ ~Delivered
          /\ ~lastRun.error
          /\ phase # "crashed"
          /\ (lastRun.trigger = "render" => calls = <<>>)
          /\ (lastRun.trigger = "effect" => "effect" \notin {calls[i] : i \in 1..Len(calls)})
    /\ Delivered =>
          /\ lastRun.rect # <<>>
          /\ lastRun.out[1] \in [origin : [x : Int, y : Int],
                                 size : [width : Int, height : Int]]
          /\ Len(lastRun.out) = 1

C3_Witness ==
    /\ lastRun.trigger = "effect"
    /\ lastRun.ref.kind = "host"
    /\ lastRun.rect = <<>>
    /\ props.force
    /\ calls = <<>>
    /\ renders = 2

\* C4 as stated: every render pass with force set, the first included,
\* invokes onMeasure during the pass.
C4_Original ==
    (phase = "rendered" /\ props.force) => (calls # <<>> /\ calls[1] = "render")

\* C4 (amended): a render pass with force set, made while the handle is bound
\* to a measurable instance whose geometry query gives a rectangle and the
\* window is wider than 0 (never the first render: the handle is bound at
\* commit), invokes onMeasure during the pass, and a post-layout invocation
\* after its commit comes on top of that one.
C4_Amended ==
    /\ (/\ phase = "rendered"
        /\ props.force
        /\ refCurrent.t = "object"
        /\ refCurrent.kind = "host"
        /\ host.rect # <<>>
        /\ host.window.size.width > 0)
       => calls = <<"render">>
    /\ (/\ phase = "idle"
        /\ calls # <<>>
        /\ calls[1] = "render"
        /\ lastRun.trigger = "effect"
        /\ Delivered)
       => calls = <<"render", "effect">>

C4_Witness ==
    /\ phase = "idle"
    /\ props.force
    /\ calls = <<"render", "effect">>

\* C5, for a re-render that changes only the child's geometry: after every
\* commit of the same measurable child in which the geometry changed, the
\* post-layout measurement runs, and delivers one frame when the geometry is
\* available.
C5_MeasuresAfterGeometryChange ==
    (/\ phase = "idle"
     /\ renders >= 1
     /\ history.childStable
     /\ commitInfo.geometryChanged)
    => /\ commitInfo.effectRan
       /\ (host.rect # <<>>) =>
             Len(SelectSeq(calls, LAMBDA c : c = "effect")) = 1

\* C6: with shouldUseTopInsets false or not passed, the delivered origin.y is
\* the raw y, whatever the raw y and the top inset are.
C6_NoInsetByDefault ==
    (Delivered /\ passed.shouldUseTopInsets \in {"false", "unset"}) =>
        lastRun.out[1].origin.y = lastRun.rect[1].y

C6_Witness ==
    /\ Delivered
    /\ passed.shouldUseTopInsets = "unset"
    /\ host.inset = Num(24)
    /\ lastRun.rect[1].y = 5
    /\ lastRun.out[1].origin.y = 5

=============================================================================
